---- MODULE Spec2Model ----
(***************************************************************************)
(* CPU scheduling simulator (src/os.py): fcfs, sjf, priority_scheduling    *)
(* and round_robin, each modelled one loop iteration per step.             *)
(***************************************************************************)
EXTENDS Integers, Sequences, FiniteSets, TLC

VARIABLES procs, algo, quantum, pc, processes, time, i, ready,
          gantt, waiting, turnaround, remaining, finish_time, averages

vars == <<procs, algo, quantum, pc, processes, time, i, ready,
          gantt, waiting, turnaround, remaining, finish_time, averages>>

(* ------------------------------ bounds -------------------------------- *)
MaxProcs == 3
MaxArrival == 2
MaxWork == 4
MaxSmallWork == 3
MaxPriority == 2
MaxQuantum == 2
MaxBadProcs == 2
MaxGantt == 16

(* --------------------------- program constants ------------------------ *)
DefaultQuantum == 2
DefaultPriority == 1

Algorithms == {"fcfs", "sjf", "priority", "rr"}

ExampleProcs ==
  << [id |-> 1, burst |-> 5, arrival |-> 0, priority |-> 1],
     [id |-> 2, burst |-> 3, arrival |-> 1, priority |-> 2],
     [id |-> 3, burst |-> 8, arrival |-> 2, priority |-> 3] >>

(* ------------------------------ helpers ------------------------------- *)
Min(a, b) == IF a <= b THEN a ELSE b

\* a Python dict: a function whose domain is the set of keys
EmptyDict == <<>>

Put(d, k, v) == [x \in (DOMAIN d) \cup {k} |-> IF x = k THEN v ELSE d[x]]

\* sorted(seq, key=lambda x: x[key]) and list.sort(key=...): a stable sort;
\* Rank is the position element k of s takes in the result
Rank(s, key, k) ==
  Cardinality({j \in DOMAIN s :
                 \/ s[j][key] < s[k][key]
                 \/ (s[j][key] = s[k][key] /\ j < k)}) + 1

StableSort(s, key) ==
  [r \in 1..Len(s) |-> s[CHOOSE k \in DOMAIN s : Rank(s, key, k) = r]]

(* ------------------------------ inputs -------------------------------- *)
Priorities(a) == IF a = "priority" THEN 1..MaxPriority ELSE {DefaultPriority}

Quanta(a) == IF a = "rr" THEN 1..MaxQuantum ELSE {DefaultQuantum}

RECURSIVE Sum(_)
Sum(b) == IF b = <<>> THEN 0 ELSE Head(b) + Sum(Tail(b))

\* total burst of the lists given to an algorithm: lists whose priorities vary
\* are the smaller ones
WorkOf(a) == IF a = "priority" THEN MaxSmallWork ELSE MaxWork

\* the bursts of n processes: each positive, work in total at most
BurstLists(n, work) == { b \in [1..n -> 1..work] : Sum(b) <= work }

\* process lists with ids P1..Pn in input order
ProcLists(n, prios, work) ==
  { [k \in 1..n |-> [id |-> k, burst |-> b[k],
                     arrival |-> f[k].arrival, priority |-> f[k].priority]] :
      b \in BurstLists(n, work),
      f \in [1..n -> [arrival : 0..MaxArrival, priority : prios]] }

Defects == {"zero burst", "negative burst", "negative arrival", "duplicate id"}

Damage(ps, k, d) ==
  CASE d = "zero burst"       -> [ps EXCEPT ![k].burst = 0]
    [] d = "negative burst"   -> [ps EXCEPT ![k].burst = -1]
    [] d = "negative arrival" -> [ps EXCEPT ![k].arrival = -1]
    [] d = "duplicate id"     -> [ps EXCEPT ![k].id = ps[(k % Len(ps)) + 1].id]

\* small lists with one invalid record (every priority the default one)
BadProcLists ==
  UNION { { Damage(ps, k, d) : k \in 1..Len(ps), d \in Defects } :
          ps \in UNION { ProcLists(m, {DefaultPriority}, MaxSmallWork) :
                          m \in 1..MaxBadProcs } }

BadQuanta == {0, -1}

Init ==
  /\ algo \in Algorithms
  /\ \/ /\ procs \in UNION { ProcLists(n, Priorities(algo), WorkOf(algo)) :
                                n \in 0..MaxProcs }
                       \cup {ExampleProcs}
        /\ quantum \in Quanta(algo)
     \/ /\ procs \in BadProcLists
        /\ quantum = DefaultQuantum
     \/ /\ algo = "rr"
        /\ procs \in UNION { ProcLists(n, {DefaultPriority}, MaxSmallWork) :
                                n \in 0..MaxBadProcs }
        /\ quantum \in BadQuanta
  /\ pc = "call"
  /\ processes = <<>>
  /\ time = 0
  /\ i = 0
  /\ ready = <<>>
  /\ gantt = <<>>
  /\ waiting = EmptyDict
  /\ turnaround = EmptyDict
  /\ remaining = EmptyDict
  /\ finish_time = EmptyDict
  /\ averages = <<>>

(* ----------------------- shared pieces of the code -------------------- *)
SortedNot(ps) == ps

\* processes = sorted(processes, key=lambda x: x["arrival"])
Sorted(ps) == StableSort(ps, "arrival")

\* while i < len(processes) and processes[i]["arrival"] <= time: i += 1
AdmittedAll(ps, k, t) == Len(ps)

RECURSIVE Admitted(_, _, _)
Admitted(ps, k, t) ==
  IF k < Len(ps) /\ ps[k + 1].arrival <= t THEN Admitted(ps, k + 1, t) ELSE k

\* the records appended to the ready list by that loop
Arrivals(ps, k, t) == SubSeq(ps, k + 1, Admitted(ps, k, t))

Interval(p, start, finish) == <<p.id, start, finish>>

WaitingFromZero(start, p) == start

WaitingOf(start, p) == start - p.arrival

TurnaroundFromZero(finish, p) == finish

TurnaroundOf(finish, p) == finish - p.arrival

IdleTickStuck(t) == t

IdleTickDouble(t) == t + 2

IdleTick(t) == t + 1

LoopConditionOffByOne == i <= Len(processes) \/ ready # <<>>

\* while i < len(processes) or ready:
LoopCondition == i < Len(processes) \/ ready # <<>>

(* -------------------------------- fcfs -------------------------------- *)
FcfsCallSortInPlace ==
  /\ pc = "call" /\ algo = "fcfs"
  /\ procs' = Sorted(procs)
  /\ processes' = Sorted(procs)
  /\ time' = 0
  /\ i' = 0
  /\ gantt' = <<>>
  /\ waiting' = EmptyDict
  /\ turnaround' = EmptyDict
  /\ pc' = "loop"
  /\ UNCHANGED <<averages, algo, quantum, ready, remaining, finish_time>>

FcfsCall ==
  /\ pc = "call" /\ algo = "fcfs"
  /\ processes' = Sorted(procs)
  /\ time' = 0
  /\ i' = 0
  /\ gantt' = <<>>
  /\ waiting' = EmptyDict
  /\ turnaround' = EmptyDict
  /\ pc' = "loop"
  /\ UNCHANGED <<averages, procs, algo, quantum, ready, remaining, finish_time>>

FcfsStartAtArrival(t, p) == p.arrival

FcfsStart(t, p) == IF t < p.arrival THEN p.arrival ELSE t

FcfsStep ==
  /\ pc = "loop" /\ algo = "fcfs"
  /\ i < Len(processes)
  /\ LET p == processes[i + 1]
         start == FcfsStart(time, p)
         finish == start + p.burst
     IN  /\ gantt' = Append(gantt, Interval(p, start, finish))
         /\ waiting' = Put(waiting, p.id, WaitingOf(start, p))
         /\ turnaround' = Put(turnaround, p.id, TurnaroundOf(finish, p))
         /\ time' = finish
  /\ i' = i + 1
  /\ UNCHANGED <<averages, procs, algo, quantum, pc, processes, ready, remaining,
                 finish_time>>

FcfsReturn ==
  /\ pc = "loop" /\ algo = "fcfs"
  /\ i = Len(processes)
  /\ pc' = "done"
  /\ UNCHANGED <<averages, procs, algo, quantum, processes, time, i, ready, gantt,
                 waiting, turnaround, remaining, finish_time>>

(* ----------------------- sjf and priority_scheduling ------------------ *)
SjfCall ==
  /\ pc = "call" /\ algo = "sjf"
  /\ processes' = Sorted(procs)
  /\ ready' = <<>>
  /\ gantt' = <<>>
  /\ waiting' = EmptyDict
  /\ turnaround' = EmptyDict
  /\ time' = 0
  /\ i' = 0
  /\ pc' = "loop"
  /\ UNCHANGED <<averages, procs, algo, quantum, remaining, finish_time>>

SjfOrderUnsorted(rdy) == rdy

SjfOrderLongestFirst(rdy) ==
  [r \in 1..Len(rdy) |-> StableSort(rdy, "burst")[Len(rdy) + 1 - r]]

\* ready.sort(key=lambda x: x["burst"])
SjfOrder(rdy) == StableSort(rdy, "burst")

SjfRunNoPop ==
  /\ pc = "loop" /\ algo = "sjf"
  /\ LoopCondition
  /\ LET rdy == ready \o Arrivals(processes, i, time)
     IN  /\ rdy # <<>>
         /\ LET p == Head(SjfOrder(rdy))
                start == time
                finish == time + p.burst
            IN  /\ ready' = SjfOrder(rdy)
                /\ gantt' = Append(gantt, Interval(p, start, finish))
                /\ waiting' = Put(waiting, p.id, WaitingOf(start, p))
                /\ turnaround' = Put(turnaround, p.id, TurnaroundOf(finish, p))
                /\ time' = finish
  /\ i' = Admitted(processes, i, time)
  /\ UNCHANGED <<averages, procs, algo, quantum, pc, processes, remaining,
                 finish_time>>

SjfRun ==
  /\ pc = "loop" /\ algo = "sjf"
  /\ LoopCondition
  /\ LET rdy == ready \o Arrivals(processes, i, time)
     IN  /\ rdy # <<>>
         /\ LET p == Head(SjfOrder(rdy))
                start == time
                finish == time + p.burst
            IN  /\ ready' = Tail(SjfOrder(rdy))
                /\ gantt' = Append(gantt, Interval(p, start, finish))
                /\ waiting' = Put(waiting, p.id, WaitingOf(start, p))
                /\ turnaround' = Put(turnaround, p.id, TurnaroundOf(finish, p))
                /\ time' = finish
  /\ i' = Admitted(processes, i, time)
  /\ UNCHANGED <<averages, procs, algo, quantum, pc, processes, remaining, finish_time>>

SjfIdle ==
  /\ pc = "loop" /\ algo = "sjf"
  /\ LoopCondition
  /\ ready \o Arrivals(processes, i, time) = <<>>
  /\ time' = IdleTick(time)
  /\ i' = Admitted(processes, i, time)
  /\ UNCHANGED <<averages, procs, algo, quantum, pc, processes, ready, gantt, waiting,
                 turnaround, remaining, finish_time>>

SjfReturn ==
  /\ pc = "loop" /\ algo = "sjf"
  /\ ~LoopCondition
  /\ pc' = "done"
  /\ UNCHANGED <<averages, procs, algo, quantum, processes, time, i, ready, gantt,
                 waiting, turnaround, remaining, finish_time>>

PriorityCall ==
  /\ pc = "call" /\ algo = "priority"
  /\ processes' = Sorted(procs)
  /\ ready' = <<>>
  /\ gantt' = <<>>
  /\ waiting' = EmptyDict
  /\ turnaround' = EmptyDict
  /\ time' = 0
  /\ i' = 0
  /\ pc' = "loop"
  /\ UNCHANGED <<averages, procs, algo, quantum, remaining, finish_time>>

PriorityOrderByBurst(rdy) == StableSort(rdy, "burst")

\* ready.sort(key=lambda x: x["priority"])
PriorityOrder(rdy) == StableSort(rdy, "priority")

PriorityRun ==
  /\ pc = "loop" /\ algo = "priority"
  /\ LoopCondition
  /\ LET rdy == ready \o Arrivals(processes, i, time)
     IN  /\ rdy # <<>>
         /\ LET p == Head(PriorityOrder(rdy))
                start == time
                finish == time + p.burst
            IN  /\ ready' = Tail(PriorityOrder(rdy))
                /\ gantt' = Append(gantt, Interval(p, start, finish))
                /\ waiting' = Put(waiting, p.id, WaitingOf(start, p))
                /\ turnaround' = Put(turnaround, p.id, TurnaroundOf(finish, p))
                /\ time' = finish
  /\ i' = Admitted(processes, i, time)
  /\ UNCHANGED <<averages, procs, algo, quantum, pc, processes, remaining, finish_time>>

PriorityIdle ==
  /\ pc = "loop" /\ algo = "priority"
  /\ LoopCondition
  /\ ready \o Arrivals(processes, i, time) = <<>>
  /\ time' = IdleTick(time)
  /\ i' = Admitted(processes, i, time)
  /\ UNCHANGED <<averages, procs, algo, quantum, pc, processes, ready, gantt, waiting,
                 turnaround, remaining, finish_time>>

PriorityReturn ==
  /\ pc = "loop" /\ algo = "priority"
  /\ ~LoopCondition
  /\ pc' = "done"
  /\ UNCHANGED <<averages, procs, algo, quantum, processes, time, i, ready, gantt,
                 waiting, turnaround, remaining, finish_time>>

(* ----------------------------- round_robin ---------------------------- *)
\* index of the last record of ps whose id is x
LastIndex(ps, x) ==
  CHOOSE k \in DOMAIN ps :
    ps[k].id = x /\ \A j \in DOMAIN ps : ps[j].id = x => j <= k

\* remaining = {p["id"]: p["burst"] for p in processes}
InitialRemaining(ps) ==
  [x \in {ps[k].id : k \in DOMAIN ps} |-> ps[LastIndex(ps, x)].burst]

RRCall ==
  /\ pc = "call" /\ algo = "rr"
  /\ ready' = <<>>
  /\ gantt' = <<>>
  /\ waiting' = EmptyDict
  /\ turnaround' = EmptyDict
  /\ processes' = Sorted(procs)
  /\ time' = 0
  /\ i' = 0
  /\ remaining' = InitialRemaining(Sorted(procs))
  /\ finish_time' = EmptyDict
  /\ pc' = "loop"
  /\ UNCHANGED <<averages, procs, algo, quantum>>

ExecTimeWholeQuantum(q, rem) == q

ExecTimeWholeBurst(q, rem) == rem

\* exec_time = min(quantum, remaining[p["id"]])
ExecTime(q, rem) == Min(q, rem)

RequeueFirst(queue, arrived, p) == (queue \o <<p>>) \o arrived

\* the queue after a slice that left p unfinished: arrivals first, then p
Requeue(queue, arrived, p) == (queue \o arrived) \o <<p>>

RRRun ==
  /\ pc = "loop" /\ algo = "rr"
  /\ LoopCondition
  /\ Len(gantt) < MaxGantt
  /\ LET queue == ready \o Arrivals(processes, i, time)
         i1 == Admitted(processes, i, time)
     IN  /\ queue # <<>>
         /\ LET p == Head(queue)
                exec_time == ExecTime(quantum, remaining[p.id])
                start == time
                finish == time + exec_time
                left == remaining[p.id] - exec_time
            IN  /\ gantt' = Append(gantt, Interval(p, start, finish))
                /\ remaining' = [remaining EXCEPT ![p.id] = left]
                /\ time' = finish
                /\ IF left > 0
                     THEN /\ ready' = Requeue(Tail(queue),
                                              Arrivals(processes, i1, finish), p)
                          /\ i' = Admitted(processes, i1, finish)
                          /\ finish_time' = finish_time
                     ELSE /\ ready' = Tail(queue)
                          /\ i' = i1
                          /\ finish_time' = Put(finish_time, p.id, finish)
  /\ UNCHANGED <<averages, procs, algo, quantum, pc, processes, waiting, turnaround>>

RRIdle ==
  /\ pc = "loop" /\ algo = "rr"
  /\ LoopCondition
  /\ ready \o Arrivals(processes, i, time) = <<>>
  /\ time' = IdleTick(time)
  /\ i' = Admitted(processes, i, time)
  /\ UNCHANGED <<averages, procs, algo, quantum, pc, processes, ready, gantt, waiting,
                 turnaround, remaining, finish_time>>

\* for p in processes: turnaround[p["id"]] = finish_time[p["id"]] - p["arrival"]
RRTurnaround(ps, ft) ==
  [x \in {ps[k].id : k \in DOMAIN ps} |->
     TurnaroundOf(ft[x], ps[LastIndex(ps, x)])]

\* waiting[p["id"]] = turnaround[p["id"]] - p["burst"]
RRWaiting(ps, ft) ==
  [x \in {ps[k].id : k \in DOMAIN ps} |->
     RRTurnaround(ps, ft)[x] - ps[LastIndex(ps, x)].burst]

RRReturn ==
  /\ pc = "loop" /\ algo = "rr"
  /\ ~LoopCondition
  /\ turnaround' = RRTurnaround(processes, finish_time)
  /\ waiting' = RRWaiting(processes, finish_time)
  /\ pc' = "done"
  /\ UNCHANGED <<averages, procs, algo, quantum, processes, time, i, ready, gantt,
                 remaining, finish_time>>

(* ----------------------------- show_results --------------------------- *)
RECURSIVE SumOver(_, _)
SumOver(d, keys) ==
  IF keys = {} THEN 0
  ELSE LET k == CHOOSE k \in keys : TRUE
       IN  d[k] + SumOver(d, keys \ {k})

\* sum(d.values()) / len(d), kept as the exact fraction <<sum, len>>
Mean(d) == <<SumOver(d, DOMAIN d), Cardinality(DOMAIN d)>>

\* the caller shows the returned result: the two means divide by len(waiting)
\* and len(turnaround), which raises ZeroDivisionError on an empty mapping
ShowResults ==
  /\ pc = "done"
  /\ IF Cardinality(DOMAIN waiting) = 0 \/ Cardinality(DOMAIN turnaround) = 0
       THEN /\ pc' = "ZeroDivisionError"
            /\ averages' = averages
       ELSE /\ pc' = "shown"
            /\ averages' = [waiting |-> Mean(waiting),
                            turnaround |-> Mean(turnaround)]
  /\ UNCHANGED <<procs, algo, quantum, processes, time, i, ready, gantt,
                 waiting, turnaround, remaining, finish_time>>

(* --------------------------- specification ---------------------------- *)
Next ==
  \/ FcfsCall \/ FcfsStep \/ FcfsReturn
  \/ SjfCall \/ SjfRun \/ SjfIdle \/ SjfReturn
  \/ PriorityCall \/ PriorityRun \/ PriorityIdle \/ PriorityReturn
  \/ RRCall \/ RRRun \/ RRIdle \/ RRReturn
  \/ ShowResults

Spec == Init /\ [][Next]_vars

\* each call runs to completion: the engine is single-threaded and synchronous
LiveSpec == Spec /\ WF_vars(Next)

TypeOK ==
  /\ algo \in Algorithms
  /\ pc \in {"call", "loop", "done", "shown", "ZeroDivisionError"}
  /\ i \in 0..Len(processes)
  /\ Len(gantt) <= MaxGantt

(* ------------------------- vocabulary of the claims ------------------- *)
\* valid input: unique ids, arrival >= 0, burst > 0
ValidRecords(ps) ==
  /\ \A k \in DOMAIN ps : ps[k].burst > 0 /\ ps[k].arrival >= 0
  /\ \A j, k \in DOMAIN ps : ps[j].id = ps[k].id => j = k

ValidCall == ValidRecords(procs) /\ (algo = "rr" => quantum >= 1)

Returned == pc = "done"

Pid(iv) == iv[1]
StartOf(iv) == iv[2]
FinishOf(iv) == iv[3]
Duration(iv) == iv[3] - iv[2]

\* the record of the caller's list labelled x (valid input: there is one)
RecordOf(x) == procs[CHOOSE k \in DOMAIN procs : procs[k].id = x]

InputIds == {procs[k].id : k \in DOMAIN procs}

RECURSIVE Executed(_, _)
Executed(g, x) ==
  IF g = <<>> THEN 0
  ELSE (IF Pid(Head(g)) = x THEN Duration(Head(g)) ELSE 0) + Executed(Tail(g), x)

Slices(x) == {j \in DOMAIN gantt : Pid(gantt[j]) = x}

\* finish of the last interval labelled x
Completion(x) ==
  FinishOf(gantt[CHOOSE j \in Slices(x) : \A m \in Slices(x) : m <= j])

(* ------------------------------- claims ------------------------------- *)
\* C1: conservation - on valid input, when an algorithm has returned, the
\* durations of the intervals labelled with a process add up to its burst.
Conservation ==
  (Returned /\ ValidCall) =>
     \A x \in InputIds : Executed(gantt, x) = RecordOf(x).burst

ConservationWitness ==
  /\ Returned /\ ValidCall /\ algo = "rr"
  /\ Len(procs) >= 2
  /\ \E x \in InputIds : Cardinality(Slices(x)) >= 2

\* C2: non-overlap - on valid input the timeline is in non-decreasing start
\* order and every interval starts at or after the finish of the one before.
NonOverlap ==
  ValidCall =>
     \A j \in 1..(Len(gantt) - 1) :
        /\ StartOf(gantt[j + 1]) >= StartOf(gantt[j])
        /\ StartOf(gantt[j + 1]) >= FinishOf(gantt[j])

NonOverlapWitness ==
  /\ Returned /\ ValidCall /\ Len(gantt) >= 3
  /\ StartOf(gantt[2]) > FinishOf(gantt[1])
  /\ StartOf(gantt[3]) = FinishOf(gantt[2])

\* C3: no early start - on valid input every interval, round-robin slices
\* included, starts at or after the arrival of the process it is labelled with.
NoEarlyStart ==
  ValidCall =>
     \A j \in DOMAIN gantt : StartOf(gantt[j]) >= RecordOf(Pid(gantt[j])).arrival

NoEarlyStartWitness ==
  /\ Returned /\ ValidCall /\ Len(gantt) >= 2
  /\ \E j \in DOMAIN gantt :
        /\ j > 1
        /\ StartOf(gantt[j]) = RecordOf(Pid(gantt[j])).arrival
        /\ StartOf(gantt[j]) > FinishOf(gantt[j - 1])

ExampleRun == procs = ExampleProcs /\ algo = "rr" /\ quantum = 2 /\ Returned

\* C4 as stated: round_robin on the example with quantum 2 returns the
\* timeline P1 P2 P1 P3 P2 P1 P3 P3 with waiting 5,5,6 and turnaround 10,8,14.
RRExampleAsStated ==
  ExampleRun =>
     /\ gantt = << <<1, 0, 2>>, <<2, 2, 4>>, <<1, 4, 6>>, <<3, 6, 8>>,
                   <<2, 8, 9>>, <<1, 9, 10>>, <<3, 10, 12>>, <<3, 12, 16>> >>
     /\ waiting = (1 :> 5) @@ (2 :> 5) @@ (3 :> 6)
     /\ turnaround = (1 :> 10) @@ (2 :> 8) @@ (3 :> 14)

\* C4 amended: round_robin on the example with quantum 2 returns the timeline
\* P1:[0,2) P2:[2,4) P3:[4,6) P1:[6,8) P2:[8,9) P3:[9,11) P1:[11,12)
\* P3:[12,14) P3:[14,16), waiting 7,5,6 and turnaround 12,8,14.
RRExample ==
  ExampleRun =>
     /\ gantt = << <<1, 0, 2>>, <<2, 2, 4>>, <<3, 4, 6>>, <<1, 6, 8>>,
                   <<2, 8, 9>>, <<3, 9, 11>>, <<1, 11, 12>>, <<3, 12, 14>>,
                   <<3, 14, 16>> >>
     /\ waiting = (1 :> 7) @@ (2 :> 5) @@ (3 :> 6)
     /\ turnaround = (1 :> 12) @@ (2 :> 8) @@ (3 :> 14)

RRExampleWitness == ExampleRun /\ Len(gantt) = 9

\* C5: preemption bound - on valid input with quantum q >= 1 no round_robin
\* interval lasts longer than q.
PreemptionBound ==
  (algo = "rr" /\ ValidCall) =>
     \A j \in DOMAIN gantt : Duration(gantt[j]) <= quantum

PreemptionBoundWitness ==
  /\ algo = "rr" /\ ValidCall /\ Returned
  /\ \E j, k \in DOMAIN gantt :
        /\ Pid(gantt[j]) = Pid(gantt[k])
        /\ Duration(gantt[j]) = quantum
        /\ Duration(gantt[k]) < quantum

\* C6: a non-positive quantum is rejected - round_robin with quantum <= 0 on
\* a non-empty valid process set fails before any simulation step: it emits no
\* interval and returns no result.
NonPositiveQuantumRejected ==
  (algo = "rr" /\ quantum <= 0 /\ procs # <<>> /\ ValidRecords(procs)) =>
     (gantt = <<>> /\ ~Returned)

\* C7: invalid process records are rejected - with a non-positive burst, a
\* negative arrival or a duplicate id every algorithm fails before simulation:
\* it emits no interval, fills no mapping and returns no result.
InvalidRecordsRejected ==
  ~ValidRecords(procs) =>
     /\ ~Returned
     /\ gantt = <<>>
     /\ DOMAIN waiting = {}
     /\ DOMAIN turnaround = {}

\* every iteration of the main loop of sjf, priority_scheduling and
\* round_robin strictly increases the clock
ClockAdvances ==
  [][(ValidCall /\ algo \in {"sjf", "priority", "rr"}
        /\ pc = "loop" /\ pc' = "loop") => time' > time]_vars

\* C8: termination with a strictly advancing clock - on valid input every
\* algorithm eventually returns, and each loop iteration of sjf,
\* priority_scheduling and round_robin strictly increases the clock.
Termination == ((ValidCall /\ pc = "call") ~> Returned) /\ ClockAdvances

TerminationWitness ==
  /\ Returned /\ ValidCall /\ algo \in {"sjf", "priority", "rr"}
  /\ Len(gantt) >= 2
  /\ StartOf(gantt[1]) >= 2

\* C9: metrics come from the completion time - on valid input turnaround[p] is
\* the finish of p's last interval minus its arrival, and waiting[p] is that
\* completion time minus arrival minus burst.
MetricsFromCompletion ==
  (Returned /\ ValidCall) =>
     \A x \in InputIds :
        /\ turnaround[x] = Completion(x) - RecordOf(x).arrival
        /\ waiting[x] = Completion(x) - RecordOf(x).arrival - RecordOf(x).burst

MetricsFromCompletionWitness ==
  /\ Returned /\ ValidCall /\ algo = "rr"
  /\ \E x \in InputIds :
        /\ Cardinality(Slices(x)) >= 2
        /\ RecordOf(x).arrival > 0
        /\ waiting[x] > 0

\* C10: waiting/turnaround identity - on valid input every input id is a key
\* of both mappings, turnaround = waiting + burst, and both are >= 0.
WaitingTurnaroundIdentity ==
  (Returned /\ ValidCall) =>
     /\ DOMAIN waiting = InputIds
     /\ DOMAIN turnaround = InputIds
     /\ \A x \in InputIds :
           /\ turnaround[x] = waiting[x] + RecordOf(x).burst
           /\ waiting[x] >= 0
           /\ turnaround[x] >= 0

WaitingTurnaroundIdentityWitness ==
  /\ Returned /\ ValidCall /\ Len(procs) >= 2
  /\ \E x, y \in InputIds :
        /\ waiting[x] = 0 /\ waiting[y] > 0
        /\ RecordOf(x).arrival > 0

NonPreemptive == algo \in {"fcfs", "sjf", "priority"}

\* C11: non-preemption - in fcfs, sjf and priority_scheduling on valid input
\* no process labels more than one interval, every interval lasts the full
\* burst of its process, and at return every input process labels exactly one.
NonPreemption ==
  (ValidCall /\ NonPreemptive) =>
     /\ \A x \in InputIds : Cardinality(Slices(x)) <= 1
     /\ \A j \in DOMAIN gantt :
           Duration(gantt[j]) = RecordOf(Pid(gantt[j])).burst
     /\ Returned => \A x \in InputIds : Cardinality(Slices(x)) = 1

\* a later arrival with a shorter burst or a smaller priority value came in
\* while another process was running
NonPreemptionWitness ==
  /\ Returned /\ ValidCall /\ algo \in {"sjf", "priority"}
  /\ \E j \in DOMAIN gantt : \E y \in InputIds :
        /\ RecordOf(y).arrival > StartOf(gantt[j])
        /\ RecordOf(y).arrival < FinishOf(gantt[j])
        /\ \/ algo = "sjf"
              /\ RecordOf(y).burst < RecordOf(Pid(gantt[j])).burst
           \/ algo = "priority"
              /\ RecordOf(y).priority < RecordOf(Pid(gantt[j])).priority

\* C12: worked example - on P1(0,5,1), P2(1,3,2), P3(2,8,3) each of fcfs, sjf
\* and priority_scheduling returns P1:[0,5), P2:[5,8), P3:[8,16) with waiting
\* 0,4,6 and turnaround 5,7,14.
NonPreemptiveExample ==
  (procs = ExampleProcs /\ NonPreemptive /\ Returned) =>
     /\ gantt = << <<1, 0, 5>>, <<2, 5, 8>>, <<3, 8, 16>> >>
     /\ waiting = (1 :> 0) @@ (2 :> 4) @@ (3 :> 6)
     /\ turnaround = (1 :> 5) @@ (2 :> 7) @@ (3 :> 14)

NonPreemptiveExampleWitness ==
  procs = ExampleProcs /\ algo = "sjf" /\ Returned /\ Len(gantt) = 3

\* C13: the caller's records are never mutated - no step of any algorithm
\* changes the caller's process list (order, id, arrival, burst, priority).
CallerRecordsUnchanged == [][procs' = procs]_vars

\* round_robin has returned after sorting its own copy and counting down some
\* process's remaining burst over several slices
CallerRecordsUnchangedWitness ==
  /\ Returned /\ ValidCall /\ algo = "rr"
  /\ processes # procs
  /\ \E x \in InputIds :
        Cardinality(Slices(x)) >= 2 /\ remaining[x] # RecordOf(x).burst

\* C14: empty input is not an error - on an empty process collection every
\* algorithm returns, without a single simulation step, an empty timeline and
\* two empty mappings.
EmptyInputReturns ==
  /\ (procs = <<>> /\ pc = "call") ~> Returned
  /\ [](procs = <<>> =>
          /\ time = 0
          /\ gantt = <<>>
          /\ DOMAIN waiting = {}
          /\ DOMAIN turnaround = {})

EmptyInputReturnsWitness ==
  procs = <<>> /\ algo = "rr" /\ Returned /\ processes = <<>>

\* C15: metrics on an empty result signal a defined error - once the means of
\* an empty Schedule Result have been asked for, the outcome is a NoDataError
\* (not a division by zero, not a value).
EmptyMetricsNoDataError ==
  (DOMAIN waiting = {} /\ pc \notin {"call", "loop", "done"}) =>
     pc = "NoDataError"

\* position of the record labelled x in the caller's list
InputIndex(x) == CHOOSE k \in DOMAIN procs : procs[k].id = x

\* arrival-then-input order of two input processes
ArrivesBefore(y, z) ==
  \/ RecordOf(y).arrival < RecordOf(z).arrival
  \/ /\ RecordOf(y).arrival = RecordOf(z).arrival
     /\ InputIndex(y) < InputIndex(z)

\* C16: admission before requeue - in round_robin on valid input, right after
\* a slice that leaves its process x unfinished every process that has arrived
\* by the clock is admitted and x is the last of the queue; so a process that
\* has arrived by the end of a slice of x gets its first slice before x's next
\* slice, and first slices come in arrival-then-input order.
AdmissionBeforeRequeue ==
  (algo = "rr" /\ ValidCall) =>
     /\ (pc = "loop" /\ gantt # <<>> /\ remaining[Pid(gantt[Len(gantt)])] > 0) =>
           /\ ready # <<>>
           /\ ready[Len(ready)].id = Pid(gantt[Len(gantt)])
           /\ \A k \in DOMAIN processes : processes[k].arrival <= time => k <= i
     /\ \A x \in InputIds : \A j, k \in Slices(x) : \A y \in InputIds \ {x} :
           (j < k /\ RecordOf(y).arrival <= FinishOf(gantt[j])) =>
              \E m \in Slices(y) : m < k
     /\ \A y, z \in InputIds :
           (ArrivesBefore(y, z) /\ Slices(z) # {}) =>
              \E m \in Slices(y) : \A n \in Slices(z) : m < n

\* y arrived during a slice of x that left x unfinished, and ran before x's
\* next slice
AdmissionBeforeRequeueWitness ==
  /\ algo = "rr" /\ ValidCall /\ Returned
  /\ \E x \in InputIds : \E j, k \in Slices(x) : \E y \in InputIds \ {x} :
        /\ j < k
        /\ RecordOf(y).arrival > StartOf(gantt[j])
        /\ RecordOf(y).arrival <= FinishOf(gantt[j])
        /\ \E m \in Slices(y) : j < m /\ m < k

\* y has arrived by the start of interval j and has not run before it
WaitingAt(y, j) ==
  /\ RecordOf(y).arrival <= StartOf(gantt[j])
  /\ \A m \in Slices(y) : m > j

\* C17: sjf selection rule - on valid input the process sjf starts at clock t
\* has the smallest burst among those arrived by t and not yet run; equal
\* bursts go by earliest arrival, then by input order.
SjfSelection ==
  (algo = "sjf" /\ ValidCall) =>
     \A j \in DOMAIN gantt : \A y \in InputIds \ {Pid(gantt[j])} :
        WaitingAt(y, j) =>
           \/ RecordOf(Pid(gantt[j])).burst < RecordOf(y).burst
           \/ /\ RecordOf(Pid(gantt[j])).burst = RecordOf(y).burst
              /\ ArrivesBefore(Pid(gantt[j]), y)

\* a process was started ahead of a waiting one that had arrived earlier but
\* has the longer burst
SjfSelectionWitness ==
  /\ algo = "sjf" /\ ValidCall /\ Returned
  /\ \E j \in DOMAIN gantt : \E y \in InputIds :
        /\ WaitingAt(y, j)
        /\ RecordOf(y).burst > RecordOf(Pid(gantt[j])).burst
        /\ RecordOf(y).arrival < RecordOf(Pid(gantt[j])).arrival

\* C18: priority selection rule - on valid input the process
\* priority_scheduling starts at clock t has the smallest priority value among
\* those arrived by t and not yet run; equal priorities go by earliest
\* arrival, then by input order.
PrioritySelection ==
  (algo = "priority" /\ ValidCall) =>
     \A j \in DOMAIN gantt : \A y \in InputIds \ {Pid(gantt[j])} :
        WaitingAt(y, j) =>
           \/ RecordOf(Pid(gantt[j])).priority < RecordOf(y).priority
           \/ /\ RecordOf(Pid(gantt[j])).priority = RecordOf(y).priority
              /\ ArrivesBefore(Pid(gantt[j]), y)

\* a process was started ahead of a waiting one that had arrived earlier but
\* has the larger priority value
PrioritySelectionWitness ==
  /\ algo = "priority" /\ ValidCall /\ Returned
  /\ \E j \in DOMAIN gantt : \E y \in InputIds :
        /\ WaitingAt(y, j)
        /\ RecordOf(y).priority > RecordOf(Pid(gantt[j])).priority
        /\ RecordOf(y).arrival < RecordOf(Pid(gantt[j])).arrival

Max(a, b) == IF a >= b THEN a ELSE b

\* finish of the interval before j, the clock's start 0 when j is the first
PreviousFinish(j) == IF j = 1 THEN 0 ELSE FinishOf(gantt[j - 1])

\* C19: fcfs order - on valid input the fcfs timeline lists the processes in
\* ascending arrival order, equal arrivals in input order, each interval
\* starting at max(previous finish, arrival) with the clock starting at 0, and
\* holds one interval per process and none for idle time.
FcfsOrder ==
  (algo = "fcfs" /\ ValidCall) =>
     /\ \A j, k \in DOMAIN gantt :
           j < k => ArrivesBefore(Pid(gantt[j]), Pid(gantt[k]))
     /\ \A j \in DOMAIN gantt :
           /\ Pid(gantt[j]) \in InputIds
           /\ StartOf(gantt[j]) =
                 Max(PreviousFinish(j), RecordOf(Pid(gantt[j])).arrival)
     /\ Returned => Len(gantt) = Len(procs)

\* the list was not in arrival order, two processes shared an arrival, and the
\* CPU idled before one interval
FcfsOrderWitness ==
  /\ algo = "fcfs" /\ ValidCall /\ Returned
  /\ processes # procs
  /\ \E j \in DOMAIN gantt : StartOf(gantt[j]) > PreviousFinish(j)
  /\ \E x, y \in InputIds : x # y /\ RecordOf(x).arrival = RecordOf(y).arrival

\* the processes that have not received their whole burst before interval j
UnfinishedBefore(j) ==
  {x \in InputIds : Executed(SubSeq(gantt, 1, j - 1), x) < RecordOf(x).burst}

EarliestArrival(xs) ==
  RecordOf(CHOOSE x \in xs :
             \A y \in xs : RecordOf(x).arrival <= RecordOf(y).arrival).arrival

\* end of a schedule that never idles while work is pending: the processes
\* taken by arrival, each starting at max(clock, arrival)
RECURSIVE Makespan(_, _)
Makespan(left, t) ==
  IF left = {} THEN t
  ELSE LET x == CHOOSE x \in left :
                  \A y \in left : RecordOf(x).arrival <= RecordOf(y).arrival
       IN  Makespan(left \ {x}, Max(t, RecordOf(x).arrival) + RecordOf(x).burst)

\* C20: work conservation - on valid (integer) input, in all four algorithms
\* every interval starts at max(previous finish, earliest arrival among the
\* unfinished processes), and the last interval finishes at the same time
\* whatever the algorithm: the end of the never-idling schedule of the input.
WorkConservation ==
  ValidCall =>
     /\ \A j \in DOMAIN gantt :
           StartOf(gantt[j]) =
              Max(PreviousFinish(j), EarliestArrival(UnfinishedBefore(j)))
     /\ (Returned /\ procs # <<>>) =>
           FinishOf(gantt[Len(gantt)]) = Makespan(InputIds, 0)

\* round_robin took an idle tick between two intervals, one process running
\* in several slices
WorkConservationWitness ==
  /\ ValidCall /\ Returned /\ algo = "rr"
  /\ Len(gantt) >= 3
  /\ \E x \in InputIds : Cardinality(Slices(x)) >= 2
  /\ \E j \in DOMAIN gantt : j > 1 /\ StartOf(gantt[j]) > FinishOf(gantt[j - 1])

====
